---------------------------- MODULE Spec2Model ----------------------------
(***************************************************************************)
(* A model of the tecendil-backend dictionary server (src/index.js):       *)
(* the dictionary compiler (compileDictionary, computeIndex,               *)
(* correctTengwar), the scorer (computeScore, computeWordScore), the query *)
(* engine (matchQuery), the ring cache (addToRing, getFromRing) and the    *)
(* /define/:word request handler.                                          *)
(*                                                                         *)
(* Strings are sequences of one-character strings; the JavaScript value    *)
(* undefined is the one-element sequence Undefined, which is no string of  *)
(* the program.                                                            *)
(***************************************************************************)
EXTENDS Integers, Sequences, FiniteSets, TLC

(***************************************************************************)
(* Bounds of the model.                                                    *)
(***************************************************************************)
\* the largest capacity of the ring (RING_SIZE is 40 in src/index.js:92; the
\* model runs the ring at every capacity 1..MaxRingSize)
MaxRingSize == 3
\* the number of /define requests followed
MaxRequests == 5
\* the length of the longest generated word
MaxLen == 2
\* the number of word nodes sharing one headword
MaxMerge == 3
\* the number of word nodes of a generated dictionary
MaxWords == 2
\* the length of the longest generated gloss word
MaxGlossLen == 3

(***************************************************************************)
(* JavaScript values and string primitives.                                *)
(***************************************************************************)
Undefined == << "#undefined" >>

\* a ?? b
Nullish(a, b) == IF a = Undefined THEN b ELSE a

\* s.substring(from): the characters of s from position from (0-based) on
substringFrom(s, from) == SubSeq(s, from + 1, Len(s))

\* s.substring(from, to): a negative or NaN bound counts as 0, a bound beyond
\* the length as the length, and the two bounds are swapped when from > to
substring(s, from, to) ==
  LET clamp(x) == IF x < 0 THEN 0 ELSE IF x > Len(s) THEN Len(s) ELSE x
      a == clamp(from)
      b == clamp(to)
      lo == IF a < b THEN a ELSE b
      hi == IF a < b THEN b ELSE a
  IN  SubSeq(s, lo + 1, hi)

\* word.startsWith(q)
startsWith(word, q) ==
  /\ Len(q) <= Len(word)
  /\ SubSeq(word, 1, Len(q)) = q

\* word.indexOf(q): the first 0-based position of q in word, -1 when absent
indexOf(word, q) ==
  LET hits == { p \in 0..(Len(word) - Len(q)) :
                  SubSeq(word, p + 1, p + Len(q)) = q }
  IN  IF hits = {} THEN -1
      ELSE CHOOSE p \in hits : \A p2 \in hits : p <= p2

\* s.split(sep) for a separator that is one character out of the set seps:
\* the pieces between separators, empty pieces included
RECURSIVE split(_, _)
split(s, seps) ==
  LET cuts == { p \in 1..Len(s) : s[p] \in seps }
  IN  IF cuts = {} THEN << s >>
      ELSE LET p == CHOOSE c \in cuts : \A c2 \in cuts : c <= c2
           IN  << SubSeq(s, 1, p - 1) >> \o split(SubSeq(s, p + 1, Len(s)), seps)

\* s.toLowerCase(), on the letters of the model's alphabet
LowerChar(c) ==
  CASE c = "A" -> "a"
    [] c = "R" -> "r"
    [] c = "N" -> "n"
    [] c = "S" -> "s"
    [] c = "Ñ" -> "ñ"
    [] c = "Þ" -> "þ"
    [] OTHER -> c

toLowerCase(s) == [ i \in 1..Len(s) |-> LowerChar(s[i]) ]

\* asciiFolder.fold(s): accented letters become their ASCII base letter, ASCII
\* is left alone; total and string-valued (a missing string folds to the
\* empty string)
FoldChar(c) ==
  CASE c = "ë" -> "e"
    [] c = "ñ" -> "n"
    [] c = "Ñ" -> "N"
    [] OTHER -> c

fold(s) == IF s = Undefined THEN << >> ELSE [ i \in 1..Len(s) |-> FoldChar(s[i]) ]

(***************************************************************************)
(* The indexer: computeIndex and correctTengwar.                           *)
(***************************************************************************)
\* the words left out of the index built from the gloss
STOP_WORDS ==
  { <<"?">>,
    <<"[", "]">>,
    <<"[", "=">>,
    <<"&">>,
    <<"=">>,
    <<"-">>,
    <<"*", "-">>,
    <<"/">>,
    <<">", ">", "}">>,
    <<"a">>,
    <<"b">>,
    <<"c", ".">>,
    <<"a", "m">>,
    <<"a", "n">>,
    <<"a", "s">>,
    <<"a", "t">>,
    <<"b", "e">>,
    <<"b", "y">>,
    <<"d", "o">>,
    <<"f", ".">>,
    <<"g", "o">>,
    <<"h", "e">>,
    <<"i">>,
    <<"i", "f">>,
    <<"i", "n">>,
    <<"i", "t">>,
    <<"i", "s">>,
    <<"m", ".">>,
    <<"m", "e">>,
    <<"m", "y">>,
    <<"n", ".">>,
    <<"n", "o">>,
    <<"o">>,
    <<"o", "f">>,
    <<"o", "n">>,
    <<"o", "r">>,
    <<"q", ".">>,
    <<"s", "g">>,
    <<"s", "o">>,
    <<"t", ".">>,
    <<"t", "o">>,
    <<"t", "h", "e">>,
    <<"u", "p">>,
    <<"u", "s">>,
    <<"w", "e">>,
    <<"(", "l", "i", "t", ".">>,
    <<"l", "i", "t", ".">>,
    <<".", ".", ".">> }

Digits == { "0", "1", "2", "3", "4", "5", "6", "7", "8", "9" }

\* /[\*\?\(\{\[]/.test(firstChar)
IsLeadingMarker(c) == c \in { "*", "?", "(", "{", "[" }

\* /[\]\)]/.test(lastChar)
IsTrailingMarker(c) == c \in { "]", ")" }

\* /[0-9]+/.test(word): some character of word is a digit
HasDigit(word) == \E i \in 1..Len(word) : word[i] \in Digits

\* the non-empty pieces of a sequence of strings, in order
RECURSIVE NonEmpty(_)
NonEmpty(ws) ==
  IF ws = << >> THEN << >>
  ELSE (IF Head(ws) = << >> THEN << >> ELSE << Head(ws) >>) \o NonEmpty(Tail(ws))

\* one word of a gloss phrase: the word as indexed, << >> when it is dropped
indexWord(w) ==
  LET w1 == IF IsLeadingMarker(w[1]) THEN substringFrom(w, 1) ELSE w
      w2 == IF w1 # << >> /\ IsTrailingMarker(w1[Len(w1)])
            THEN substring(w1, 0, -1) ELSE w1
  IN  IF w2 # << >> /\ ~HasDigit(w2) /\ w2 \notin STOP_WORDS THEN w2 ELSE << >>

\* the indexed words of the words ws of one phrase
RECURSIVE indexWords(_)
indexWords(ws) ==
  IF ws = << >> THEN << >>
  ELSE (IF Head(ws) = << >> THEN << >>
        ELSE LET w == indexWord(Head(ws))
             IN  IF w = << >> THEN << >> ELSE << w >>)
       \o indexWords(Tail(ws))

\* the indexed words of the phrases ps of a gloss
RECURSIVE indexPhrases(_)
indexPhrases(ps) ==
  IF ps = << >> THEN << >>
  ELSE indexWords(split(Head(ps), { " " })) \o indexPhrases(Tail(ps))

computeIndex(node) ==
  LET v == split(toLowerCase(fold(node.attr.v)), { " " })
      phrases == split(toLowerCase(fold(
                   Nullish(Nullish(node.attr.ngloss, node.attr.gloss), << >>))),
                   { ",", ";" })
  IN  NonEmpty(v) \o indexPhrases(phrases)

correctTengwar(node) ==
  LET v == node.attr.v
      tengwar == node.attr.tengwar
  IN  IF v = Undefined \/ v = << >> \/ tengwar = Undefined \/ tengwar = << >>
      THEN v
      ELSE IF tengwar = << "ñ" >> \/ tengwar = << "ñ", "-" >>
      THEN (IF v[1] = "n" THEN << "ñ" >> \o substringFrom(v, 1)
            ELSE IF v[1] = "N" THEN << "Ñ" >> \o substringFrom(v, 1)
            ELSE v)
      ELSE IF tengwar = << "þ" >> \/ tengwar = << "þ", "-" >>
      THEN LET index == indexOf(toLowerCase(v), << "s" >>)
           IN  IF index >= 0
               THEN SubSeq(v, 1, index)
                    \o << (IF v[index + 1] = "S" THEN "Þ" ELSE "þ") >>
                    \o substringFrom(v, index + 1)
               ELSE v
      ELSE IF tengwar = << "ñ", "o", "r", "þ", "u", "s" >>
      THEN << "Ñ", "o", "r", "þ", "u", "s" >>
      ELSE v

(***************************************************************************)
(* The compiler: compileDictionaryRecursive and compileDictionary.         *)
(* A node of the raw tree is [name, attr, val, children]; attr has the     *)
(* fields v, gloss, ngloss, speech, tengwar, l, stem, each a string or     *)
(* Undefined.                                                              *)
(***************************************************************************)
ExcludedSpeech ==
  { << "s", "u", "f" >>,
    << "p", "r", "e", "f" >>,
    << "p", "h", "o", "n", "e", "m", "e" >>,
    << "p", "h", "o", "n", "e", "t", "i", "c", "s" >>,
    << "p", "h", "o", "n", "e", "t", "i", "c", "-", "r", "u", "l", "e" >>,
    << "p", "h", "o", "n", "e", "t", "i", "c", "-", "g", "r", "o", "u", "p" >>,
    << "g", "r", "a", "m", "m", "a", "r" >> }

\* node.childrenNamed("element").map((x) => x.attr.v).filter((x) => x !== undefined)
RECURSIVE elementsOf(_)
elementsOf(children) ==
  IF children = << >> THEN << >>
  ELSE (IF Head(children).name = "element" /\ Head(children).attr.v # Undefined
        THEN << Head(children).attr.v >> ELSE << >>)
       \o elementsOf(Tail(children))

\* node.childNamed("notes"): the val of the first child named notes
RECURSIVE notesOf(_)
notesOf(children) ==
  IF children = << >> THEN Undefined
  ELSE IF Head(children).name = "notes" THEN Head(children).val
  ELSE notesOf(Tail(children))

\* the entry built for a qualifying word node
entryOf(node) ==
  [ v |-> correctTengwar(node),
    index |-> computeIndex(node),
    language |-> node.attr.l,
    pos |-> Nullish(node.attr.speech, << >>),
    gloss |-> Nullish(node.attr.ngloss, node.attr.gloss),
    stem |-> node.attr.stem,
    notes |-> notesOf(node.children),
    tengwar |-> node.attr.tengwar,
    elements |-> elementsOf(node.children) ]

RECURSIVE compileDictionaryRecursive(_)
RECURSIVE compileChildren(_)

\* node.eachChild((child) => result.push(...compileDictionaryRecursive(child)))
compileChildren(children) ==
  IF children = << >> THEN << >>
  ELSE compileDictionaryRecursive(Head(children)) \o compileChildren(Tail(children))

\* compileDictionaryRecursive not descending below a word node it compiles
compileDictionaryRecursiveShallow(node) ==
  IF /\ node.name = "word"
     /\ Nullish(node.attr.speech, << >>) \notin ExcludedSpeech
  THEN << entryOf(node) >>
  ELSE compileChildren(node.children)

compileDictionaryRecursive(node) ==
  (IF /\ node.name = "word"
      /\ Nullish(node.attr.speech, << >>) \notin ExcludedSpeech
   THEN << entryOf(node) >> ELSE << >>)
  \o compileChildren(node.children)

Unglossed == << "[", "u", "n", "g", "l", "o", "s", "s", "e", "d", "]" >>

GlossSeparator == << " ", "/", " " >>

\* gShortDefinitions.set(k, x)
MapSet(m, k, x) == [ y \in DOMAIN m \cup { k } |-> IF y = k THEN x ELSE m[y] ]

\* one turn of the loop of compileDictionary: the table after entry
mergeEntry(table, entry) ==
  IF entry.gloss # Undefined /\ entry.gloss # << >> /\ entry.gloss # Unglossed
  THEN IF entry.v \notin DOMAIN table
       THEN MapSet(table, entry.v, entry.gloss)
       ELSE LET def == table[entry.v]
            IN  IF def # entry.gloss
                THEN MapSet(table, entry.v, def \o GlossSeparator \o entry.gloss)
                ELSE table
  ELSE table

\* the loop of compileDictionary over the compiled entries
RECURSIVE mergeGlosses(_, _)
mergeGlosses(table, entries) ==
  IF entries = << >> THEN table
  ELSE mergeGlosses(mergeEntry(table, Head(entries)), Tail(entries))

\* compileDictionary(eldamoRoot), run with the table gShortDefinitions as it is:
\* the entries it returns and the table it leaves
compileDictionary(eldamoRoot, table) ==
  LET result == compileDictionaryRecursive(eldamoRoot)
  IN  [ result |-> result, table |-> mergeGlosses(table, result) ]

(***************************************************************************)
(* The scorer.  A score before rounding is a fraction << num, den >> with  *)
(* den > 0.                                                                *)
(***************************************************************************)
\* computeWordScore scoring an equal word 100
computeWordScoreExact100(word, q) ==
  IF word = q THEN << 100, 1 >>
  ELSE IF startsWith(word, q) THEN << 98 * Len(q), Len(word) >>
  ELSE IF indexOf(word, q) >= 0 THEN << 70 * Len(q), Len(word) >>
  ELSE << 0, 1 >>

\* computeWordScore weighing a prefix 100
computeWordScorePrefix100(word, q) ==
  IF word = q THEN << 99, 1 >>
  ELSE IF startsWith(word, q) THEN << 100 * Len(q), Len(word) >>
  ELSE IF indexOf(word, q) >= 0 THEN << 70 * Len(q), Len(word) >>
  ELSE << 0, 1 >>

computeWordScore(word, q) ==
  IF word = q THEN << 99, 1 >>
  ELSE IF startsWith(word, q) THEN << 98 * Len(q), Len(word) >>
  ELSE IF indexOf(word, q) >= 0 THEN << 70 * Len(q), Len(word) >>
  ELSE << 0, 1 >>

\* Math.max(a, b)
MathMax(a, b) == IF a[1] * b[2] >= b[1] * a[2] THEN a ELSE b

\* Math.round(a): the nearest integer, a half rounded up
MathRound(a) == (2 * a[1] + a[2]) \div (2 * a[2])

\* the loop of computeScore from the words ws on, with the score so far:
\* the value computeScore returns
RECURSIVE computeScoreFrom(_, _, _, _)
computeScoreFrom(node, q, ws, score) ==
  IF ws = << >> THEN MathRound(score)
  ELSE LET s == MathMax(score, computeWordScore(Head(ws), q))
       IN  IF /\ s[1] = 99 * s[2]
              /\ \/ toLowerCase(fold(node.v)) = q
                 \/ toLowerCase(fold(node.gloss)) = q
           THEN 100
           ELSE computeScoreFrom(node, q, Tail(ws), s)

computeScore(node, q) == computeScoreFrom(node, q, node.index, << 0, 1 >>)

(***************************************************************************)
(* The query engine.                                                       *)
(***************************************************************************)
\* gShortDefinitions.get(k)
MapGet(m, k) == IF k \in DOMAIN m THEN m[k] ELSE Undefined

\* entry.elements.map((v) => ({ v, gloss: gShortDefinitions.get(q) ?? "" }))
resolveElements(elements, q, table) ==
  [ i \in 1..Len(elements) |->
      [ v |-> elements[i], gloss |-> Nullish(MapGet(table, q), << >>) ] ]

\* the loop of matchQuery over the entries of the dictionary
RECURSIVE matchEntries(_, _, _)
matchEntries(entries, q, table) ==
  IF entries = << >> THEN << >>
  ELSE LET entry == Head(entries)
           score == computeScore(entry, q)
       IN  (IF score > 0
            THEN << [ v |-> entry.v, index |-> entry.index,
                      language |-> entry.language, pos |-> entry.pos,
                      gloss |-> entry.gloss, stem |-> entry.stem,
                      notes |-> entry.notes, tengwar |-> entry.tengwar,
                      score |-> score,
                      elements |-> resolveElements(entry.elements, q, table) ] >>
            ELSE << >>)
           \o matchEntries(Tail(entries), q, table)

\* matchQuery putting each match in front of the earlier ones
matchQueryUnshift(q, dictionary, table) ==
  LET matched == matchEntries(dictionary, q, table)
  IN  [ i \in 1..Len(matched) |-> matched[Len(matched) + 1 - i] ]

matchQuery(q, dictionary, table) == matchEntries(dictionary, q, table)

(***************************************************************************)
(* The ring cache.  gRing is a sequence of slots, slot i of the program    *)
(* being gRing[i + 1]; a slot is [used, key, value], used being FALSE for  *)
(* a hole or an undefined element.  A result of getFromRing is             *)
(* [defined, value].                                                       *)
(***************************************************************************)
EmptySlot == [ used |-> FALSE, key |-> << >>, value |-> << >> ]

NoResult == [ defined |-> FALSE, value |-> << >> ]

\* new Array(size)
NewRing(size) == [ i \in 1..size |-> EmptySlot ]

\* gRing.splice(i, 1)
spliceRemove(ring, i) == SubSeq(ring, 1, i) \o SubSeq(ring, i + 2, Len(ring))

\* gRing.splice(i, 0, undefined)
spliceInsert(ring, i) ==
  SubSeq(ring, 1, i) \o << EmptySlot >> \o SubSeq(ring, i + 1, Len(ring))

\* addToRing with the cursor left where it was
addToRingNoAdvance(ring, ringIndex, size, k, v) ==
  [ ring |-> [ ring EXCEPT ![ringIndex + 1] = [ used |-> TRUE, key |-> k, value |-> v ] ],
    ringIndex |-> ringIndex ]

\* addToRing(k, v) on the ring and cursor given: the ring and cursor it leaves
addToRing(ring, ringIndex, size, k, v) ==
  [ ring |-> [ ring EXCEPT ![ringIndex + 1] = [ used |-> TRUE, key |-> k, value |-> v ] ],
    ringIndex |-> (ringIndex + 1) % size ]

\* the hit that promotes nothing: ring and cursor are left as they were
ringHitNoPromote(ring, ringIndex, i) == [ ring |-> ring, ringIndex |-> ringIndex ]

\* the hit that leaves the cursor on the slot it hit
ringHitCursorStays(ring, ringIndex, i) ==
  IF ringIndex # i
  THEN LET moved == [ ring EXCEPT ![ringIndex + 1] = ring[i + 1] ]
           removed == spliceRemove(moved, i)
           index == IF i > ringIndex
                    THEN (ringIndex + 1) % Len(removed) ELSE ringIndex
       IN  [ ring |-> spliceInsert(removed, index), ringIndex |-> index ]
  ELSE [ ring |-> ring, ringIndex |-> ringIndex ]

\* the hit that removes the hit slot without inserting an empty one
ringHitNoInsert(ring, ringIndex, i) ==
  IF ringIndex # i
  THEN LET moved == [ ring EXCEPT ![ringIndex + 1] = ring[i + 1] ]
           removed == spliceRemove(moved, i)
           index == IF i > ringIndex
                    THEN (ringIndex + 1) % Len(removed) ELSE ringIndex
       IN  [ ring |-> removed, ringIndex |-> index ]
  ELSE [ ring |-> ring, ringIndex |-> (ringIndex + 1) % Len(ring) ]

\* the hit that wraps the cursor at the full length of the ring
ringHitFullModulus(ring, ringIndex, i) ==
  IF ringIndex # i
  THEN LET moved == [ ring EXCEPT ![ringIndex + 1] = ring[i + 1] ]
           removed == spliceRemove(moved, i)
           index == IF i > ringIndex
                    THEN (ringIndex + 1) % Len(ring) ELSE ringIndex
       IN  [ ring |-> spliceInsert(removed, index), ringIndex |-> index ]
  ELSE [ ring |-> ring, ringIndex |-> (ringIndex + 1) % Len(ring) ]

\* the body of the loop of getFromRing when slot i holds the key
ringHit(ring, ringIndex, i) ==
  IF ringIndex # i
  THEN LET moved == [ ring EXCEPT ![ringIndex + 1] = ring[i + 1] ]
           removed == spliceRemove(moved, i)
           index == IF i > ringIndex
                    THEN (ringIndex + 1) % Len(removed) ELSE ringIndex
       IN  [ ring |-> spliceInsert(removed, index), ringIndex |-> index ]
  ELSE [ ring |-> ring, ringIndex |-> (ringIndex + 1) % Len(ring) ]

\* the loop of getFromRing from position i on; the values of the ring are JSON
\* texts, never empty, so that a result that is defined ends the loop
RECURSIVE getFromRingLoop(_, _, _, _, _)
getFromRingLoop(ring, ringIndex, k, i, result) ==
  IF result.defined \/ i >= Len(ring)
  THEN [ ring |-> ring, ringIndex |-> ringIndex, result |-> result ]
  ELSE IF ring[i + 1].used /\ ring[i + 1].key = k
  THEN LET h == ringHit(ring, ringIndex, i)
       IN  getFromRingLoop(h.ring, h.ringIndex, k, i + 1,
                           [ defined |-> TRUE, value |-> ring[i + 1].value ])
  ELSE getFromRingLoop(ring, ringIndex, k, i + 1, result)

\* getFromRing returning on a hit the value the cursor slot held
getFromRingCursorValue(ring, ringIndex, k) ==
  LET got == getFromRingLoop(ring, ringIndex, k, 0, NoResult)
  IN  IF got.result.defined
      THEN [ got EXCEPT !.result = [ defined |-> TRUE,
                                     value |-> ring[ringIndex + 1].value ] ]
      ELSE got

\* getFromRing that finds no key
getFromRingNeverHits(ring, ringIndex, k) ==
  [ ring |-> ring, ringIndex |-> ringIndex, result |-> NoResult ]

\* getFromRing moving the cursor on when no slot holds the key
getFromRingMissAdvances(ring, ringIndex, k) ==
  LET got == getFromRingLoop(ring, ringIndex, k, 0, NoResult)
  IN  IF got.result.defined THEN got
      ELSE [ got EXCEPT !.ringIndex = (ringIndex + 1) % Len(ring) ]

\* getFromRing(k) on the ring and cursor given: the ring and cursor it leaves
\* and the value it returns
getFromRing(ring, ringIndex, k) == getFromRingLoop(ring, ringIndex, k, 0, NoResult)

(***************************************************************************)
(* JSON.stringify and JSON.parse of a sequence of entries or results: a    *)
(* property whose value is undefined is left out of the text, and reads as *)
(* undefined once parsed.  A JSON text is the sequence of the objects with *)
(* the properties it spells out.                                           *)
(***************************************************************************)
OptionalFields == { "v", "language", "pos", "gloss", "stem", "notes", "tengwar" }

StringifyObject(obj) ==
  [ f \in { g \in DOMAIN obj : g \in OptionalFields => obj[g] # Undefined } |-> obj[f] ]

JSONstringify(objs) == [ i \in 1..Len(objs) |-> StringifyObject(objs[i]) ]

EntryFields ==
  { "v", "index", "language", "pos", "gloss", "stem", "notes", "tengwar", "elements" }

ParseEntry(obj) ==
  [ f \in EntryFields |-> IF f \in DOMAIN obj THEN obj[f] ELSE Undefined ]

JSONparse(text) == [ i \in 1..Len(text) |-> ParseEntry(text[i]) ]

(***************************************************************************)
(* The state of the program, and of the observer.                          *)
(***************************************************************************)
VARIABLES
  root,               \* the raw tree of eldamo-data.xml
  gEldamoDictionary,  \* the entries loadDictionary returned
  gShortDefinitions,  \* the short-gloss table
  loadFailed,         \* whether loadDictionary returned undefined
  fault,              \* whether the last /define request raised an exception
  RING_SIZE,          \* the capacity the ring was built with
  gRing,              \* the ring
  gRingIndex,         \* the cursor of the ring
  query,              \* q of the last /define request
  body,               \* r of the last /define request, the body sent
  fromRing,           \* whether the last request was served from the ring
  hist,               \* the requests so far, each [q, hit, r]
  lru,                \* an ideal LRU cache of the same capacity, least recent first
  lruResult,          \* what the ideal LRU cache returned to the last get
  hitKey,             \* the key of the last hit, while only new keys were put since
  hitOthers,          \* the other keys stored when hitKey was hit
  prevRing,           \* the ring before the last call or request
  prevIndex,          \* the cursor before the last call or request
  op,                 \* the last call: "get", "put", "define" or "none"
  pc,                 \* "serve", or the step of a run of one function
  inEntry,            \* computeScore: its entry
  inQuery,            \* computeScore and matchQuery: the folded query
  outScore,           \* computeScore: what it returned
  outResult,          \* matchQuery: what it returned
  firstRun,           \* compileDictionary: the entries and table of its first run
  inNode,             \* computeIndex: its node
  outIndex            \* computeIndex: what it returned

vars ==
  << root, gEldamoDictionary, gShortDefinitions, loadFailed, fault,
     RING_SIZE, gRing, gRingIndex,
     query, body, fromRing, hist, lru, lruResult, hitKey, hitOthers,
     prevRing, prevIndex, op,
     pc, inEntry, inQuery, outScore, outResult, firstRun, inNode, outIndex >>

ringVars == << RING_SIZE, gRing, gRingIndex, query, body, fromRing, hist,
               lru, lruResult, hitKey, hitOthers, prevRing, prevIndex, op,
               loadFailed, fault >>

funVars == << inEntry, inQuery, outScore, outResult, firstRun, inNode, outIndex >>

\* the observer's variables of the runs of compileDictionary and computeIndex
runVars == << firstRun, inNode, outIndex >>

\* the observer's variables of the ideal cache and of the last hit
ghostVars == << hist, lru, lruResult, hitKey, hitOthers >>

(***************************************************************************)
(* Raw trees.                                                              *)
(***************************************************************************)
NoAttr ==
  [ v |-> Undefined, gloss |-> Undefined, ngloss |-> Undefined,
    speech |-> Undefined, tengwar |-> Undefined, l |-> Undefined,
    stem |-> Undefined ]

Node(name, attr, children) ==
  [ name |-> name, attr |-> attr, val |-> << >>, children |-> children ]

Element(v) == Node("element", [ NoAttr EXCEPT !.v = v ], << >>)

Word(v, gloss, children) ==
  Node("word", [ NoAttr EXCEPT !.v = v, !.gloss = gloss,
                               !.speech = << "n" >>, !.l = << "s" >> ],
       children)

\* the keys of the ring that are stored
StoredKeys(ring) == { ring[i].key : i \in { j \in 1..Len(ring) : ring[j].used } }

(***************************************************************************)
(* The server: the module is loaded (loadDictionary), then /define/:word   *)
(* requests are handled one at a time.                                     *)
(***************************************************************************)
\* the raw tree the server is run on
ServerRoot ==
  Node("eldamo", NoAttr,
       << Word(<< "a", "r" >>, << "r", "a" >>, << Element(<< "r", "a" >>) >>),
          Word(<< "r", "a" >>, << "a", "r" >>, << >>),
          Word(<< "A", "r", "a" >>, Undefined, << Element(<< "a", "r" >>) >>) >>)

\* the words requested, as they arrive in req.params.word
RequestWords ==
  { << "a", "r" >>, << "r", "a" >>, << "a" >>, << "r" >>, << "A", "r" >> }

\* loadDictionary() when eldamo-data.json is missing: compiled from the XML
LoadFromXml(tree) == compileDictionary(tree, << >>)

\* loadDictionary() when eldamo-data.json is there, written by an earlier run:
\* the entries are parsed from it, the table is left as it was
LoadFromJson(tree) ==
  [ result |-> JSONparse(JSONstringify(compileDictionaryRecursive(tree))),
    table |-> << >> ]

NoRun ==
  /\ firstRun = << >>
  /\ inNode = << >>
  /\ outIndex = << >>

NoFunRun ==
  /\ inEntry = << >>
  /\ inQuery = << >>
  /\ outScore = 0
  /\ outResult = << >>
  /\ NoRun

Init ==
  /\ root = ServerRoot
  /\ \/ /\ loadFailed = FALSE
        /\ \E loaded \in { LoadFromXml(root), LoadFromJson(root) } :
             /\ gEldamoDictionary = loaded.result
             /\ gShortDefinitions = loaded.table
     \/ /\ loadFailed = TRUE
        /\ gEldamoDictionary = Undefined
        /\ gShortDefinitions = << >>
  /\ fault = FALSE
  /\ RING_SIZE \in 1..MaxRingSize
  /\ gRing = NewRing(RING_SIZE)
  /\ gRingIndex = 0
  /\ prevRing = gRing
  /\ prevIndex = 0
  /\ op = "none"
  /\ query = << >>
  /\ body = << >>
  /\ fromRing = FALSE
  /\ hist = << >>
  /\ lru = << >>
  /\ lruResult = NoResult
  /\ hitKey = << >>
  /\ hitOthers = {}
  /\ pc = "serve"
  /\ NoFunRun

\* the ideal LRU cache: get(k), then put(k, v) when the ring missed
LruKeys(cache) == { cache[i].key : i \in 1..Len(cache) }

LruWithout(cache, k) == SelectSeq(cache, LAMBDA e : e.key # k)

LruGet(cache, k) ==
  IF k \in LruKeys(cache)
  THEN LET e == CHOOSE x \in { cache[i] : i \in 1..Len(cache) } : x.key = k
       IN  [ cache |-> Append(LruWithout(cache, k), e),
             result |-> [ defined |-> TRUE, value |-> e.value ] ]
  ELSE [ cache |-> cache, result |-> NoResult ]

LruPut(cache, size, k, v) ==
  LET added == Append(LruWithout(cache, k), [ key |-> k, value |-> v ])
  IN  IF Len(added) > size THEN Tail(added) ELSE added

\* the keys requested so far
SeenKeys == { hist[i].q : i \in 1..Len(hist) }

\* app.get("/define/:word"), the request served from the ring
DefineHit(word) ==
  LET q == toLowerCase(fold(word))
      got == getFromRing(gRing, gRingIndex, q)
      ideal == LruGet(lru, q)
  IN  /\ pc = "serve"
      /\ Len(hist) < MaxRequests
      /\ got.result.defined
      /\ gRing' = got.ring
      /\ gRingIndex' = got.ringIndex
      /\ query' = q
      /\ body' = got.result.value
      /\ fromRing' = TRUE
      /\ hist' = Append(hist, [ q |-> q, hit |-> TRUE, r |-> got.result.value ])
      /\ lru' = ideal.cache
      /\ lruResult' = ideal.result
      /\ hitKey' = << q >>
      /\ hitOthers' = StoredKeys(gRing) \ { q }
      /\ prevRing' = gRing
      /\ prevIndex' = gRingIndex
      /\ op' = "define"
      /\ fault' = FALSE
      /\ UNCHANGED << root, gEldamoDictionary, gShortDefinitions, loadFailed,
                      RING_SIZE, pc >>
      /\ UNCHANGED funVars

\* app.get("/define/:word"), the request computed by matchQuery and added to
\* the ring
DefineMiss(word) ==
  LET q == toLowerCase(fold(word))
      got == getFromRing(gRing, gRingIndex, q)
      r == JSONstringify(matchQuery(q, gEldamoDictionary, gShortDefinitions))
      added == addToRing(got.ring, got.ringIndex, RING_SIZE, q, r)
      ideal == LruGet(lru, q)
  IN  /\ pc = "serve"
      /\ Len(hist) < MaxRequests
      /\ ~got.result.defined
      /\ ~loadFailed
      /\ gRing' = added.ring
      /\ gRingIndex' = added.ringIndex
      /\ query' = q
      /\ body' = r
      /\ fromRing' = FALSE
      /\ hist' = Append(hist, [ q |-> q, hit |-> FALSE, r |-> r ])
      /\ lru' = LruPut(ideal.cache, RING_SIZE, q, r)
      /\ lruResult' = ideal.result
      /\ IF hitKey # << >> /\ q \notin SeenKeys
         THEN UNCHANGED << hitKey, hitOthers >>
         ELSE hitKey' = << >> /\ hitOthers' = {}
      /\ prevRing' = gRing
      /\ prevIndex' = gRingIndex
      /\ op' = "define"
      /\ fault' = FALSE
      /\ UNCHANGED << root, gEldamoDictionary, gShortDefinitions, loadFailed,
                      RING_SIZE, pc >>
      /\ UNCHANGED funVars

\* app.get("/define/:word") when loadDictionary returned undefined: the ring
\* misses and matchQuery raises a TypeError at its for ... of over
\* gEldamoDictionary, so that nothing is added to the ring and res.send is
\* never reached
DefineFault(word) ==
  LET q == toLowerCase(fold(word))
      got == getFromRing(gRing, gRingIndex, q)
  IN  /\ pc = "serve"
      /\ ~got.result.defined
      /\ loadFailed
      /\ gRing' = got.ring
      /\ gRingIndex' = got.ringIndex
      /\ query' = q
      /\ body' = Undefined
      /\ fromRing' = FALSE
      /\ fault' = TRUE
      /\ prevRing' = gRing
      /\ prevIndex' = gRingIndex
      /\ op' = "define"
      /\ UNCHANGED << root, gEldamoDictionary, gShortDefinitions, loadFailed,
                      RING_SIZE, pc >>
      /\ UNCHANGED ghostVars
      /\ UNCHANGED funVars

Next ==
  \/ \E word \in RequestWords : DefineHit(word)
  \/ \E word \in RequestWords : DefineMiss(word)
  \/ \E word \in RequestWords : DefineFault(word)

Spec == Init /\ [][Next]_vars

(***************************************************************************)
(* The ring cache against its contract (specification Spec).               *)
(***************************************************************************)
\* the position in hist of the last request for the key k, 0 when none: every
\* request for k touches k, by a hit of getFromRing or by addToRing
LastTouch(k) ==
  LET at == { i \in 1..Len(hist) : hist[i].q = k }
  IN  IF at = {} THEN 0 ELSE CHOOSE i \in at : \A j \in at : j <= i

Occupied(ring) == Cardinality({ i \in 1..Len(ring) : ring[i].used })

\* C1: each get of the ring returns what an ideal LRU cache of the same
\* capacity returns for the same sequence of calls: a hit, with the stored
\* value, exactly when the ideal cache holds the key.
RingRefinesIdealLru ==
  hist # << >> =>
    /\ fromRing = lruResult.defined
    /\ fromRing => body = lruResult.value

\* C2: a get never makes a stored key unretrievable, and never lowers the
\* number of occupied slots.
GetLosesNoKey ==
  [][ (Len(hist') = Len(hist) + 1 /\ hist'[Len(hist')].hit) =>
        /\ StoredKeys(gRing) \subseteq StoredKeys(gRing')
        /\ Occupied(gRing') >= Occupied(gRing) ]_vars

\* C3: whenever the cursor slot is occupied it holds the least recently used
\* (put or hit) of the stored entries, and whenever a put overwrites an occupied
\* slot the entry it removes is the least recently used of the entries stored.
CursorSlotIsLeastRecent ==
  gRing[gRingIndex + 1].used =>
    \A k \in StoredKeys(gRing) : LastTouch(gRing[gRingIndex + 1].key) <= LastTouch(k)

PutEvictsLeastRecent ==
  (Len(hist') = Len(hist) + 1 /\ ~hist'[Len(hist')].hit) =>
    \A gone \in StoredKeys(gRing) \ StoredKeys(gRing') :
      \A k \in StoredKeys(gRing) : LastTouch(gone) <= LastTouch(k)

EvictionIsLeastRecentlyUsed ==
  [] CursorSlotIsLeastRecent /\ [][ PutEvictsLeastRecent ]_vars

\* C3 witness: a put has just overwritten an occupied slot of a ring on which
\* some get had hit before.
EvictionAfterHitReached ==
  /\ hist # << >>
  /\ ~hist[Len(hist)].hit
  /\ \E i \in 1..Len(hist) : hist[i].hit
  /\ \E k \in SeenKeys : k \notin StoredKeys(gRing) /\ LastTouch(k) > 0
  /\ Occupied(gRing) = RING_SIZE
  /\ RING_SIZE >= 2

\* C4: after get(k) hits and only new, distinct keys are put, k is evicted
\* strictly later than every other key stored at the time of the hit; with
\* capacity 2, put(a), put(b), get(a), put(c) leaves a stored and b not.
HitKeyEvictedLast ==
  (/\ hitKey # << >>
   /\ hitKey' = hitKey
   /\ hitKey[1] \in StoredKeys(gRing)
   /\ hitKey[1] \notin StoredKeys(gRing')) =>
    hitOthers \cap StoredKeys(gRing) = {}

CapacityTwoScenario ==
  (/\ RING_SIZE = 2
   /\ Len(hist) = 4
   /\ hist[3].q = hist[1].q
   /\ hist[3].hit
   /\ ~hist[4].hit
   /\ Cardinality({ hist[1].q, hist[2].q, hist[4].q }) = 3) =>
    /\ getFromRing(gRing, gRingIndex, hist[1].q).result
         = [ defined |-> TRUE, value |-> hist[1].r ]
    /\ ~getFromRing(gRing, gRingIndex, hist[2].q).result.defined

HitSurvivesLonger ==
  [] CapacityTwoScenario /\ [][ HitKeyEvictedLast ]_vars

\* C4 witness: a key that was hit has been evicted by puts of new keys, in a
\* ring that held other keys when it was hit.
HitKeyEvictedReached ==
  /\ hitKey # << >>
  /\ hitOthers # {}
  /\ hitKey[1] \notin StoredKeys(gRing)

\* C5: after M > N distinct keys are put into a ring of capacity N and no get
\* has hit, the first M - N keys are not retrievable and the last N are, with
\* their values.
OnlyDistinctPuts ==
  /\ \A i \in 1..Len(hist) : ~hist[i].hit
  /\ Cardinality(SeenKeys) = Len(hist)

LastPutsRetained ==
  (OnlyDistinctPuts /\ Len(hist) > RING_SIZE) =>
    \A i \in 1..Len(hist) :
      LET got == getFromRing(gRing, gRingIndex, hist[i].q).result
      IN  IF i <= Len(hist) - RING_SIZE
          THEN ~got.defined
          ELSE got = [ defined |-> TRUE, value |-> hist[i].r ]

\* C5 witness: two keys more than the capacity have been put, of a ring of
\* capacity 2 or more.
OverfilledReached ==
  /\ OnlyDistinctPuts
  /\ RING_SIZE >= 2
  /\ Len(hist) >= RING_SIZE + 2

(***************************************************************************)
(* computeScore run on one entry and one query (specification SpecScore).  *)
(***************************************************************************)
Alphabet == { "a", "r" }

\* the words over Alphabet of 1..n letters
Words(n) == UNION { [ 1..k -> Alphabet ] : k \in 1..n }

Aragorn == << "a", "r", "a", "g", "o", "r", "n" >>

ScoreHeadwords ==
  Words(MaxLen)
    \cup { Aragorn,
           << "A", "r", " ", "r", "a" >>,
           << "a", "r", "ë" >> }

ScoreGlosses ==
  { Undefined } \cup Words(MaxLen)
    \cup { << "a", " ", "r", "a" >>,
           << "r", "a", ",", " ", "(", "a", "r", ")" >>,
           << "*", "a", "r", ";", "r", "1" >> }

ScoreQueries ==
  Words(MaxLen)
    \cup { << "a", "r", "a" >>, << "a", "g", "o", "r" >>, Aragorn,
           << "a", "r", " ", "r", "a" >>, << "a", "r", "e" >>,
           << "n", "a", "r" >> }

ScoreNodes ==
  { Word(v, g, << >>) : v \in ScoreHeadwords, g \in ScoreGlosses }
    \cup { Node("word", [ NoAttr EXCEPT !.v = << "n", "a", "r" >>, !.gloss = g,
                                        !.tengwar = << "ñ" >> ], << >>) :
             g \in ScoreGlosses }

ScoreEntries == { entryOf(n) : n \in ScoreNodes }

RingIdle ==
  /\ RING_SIZE = 1
  /\ gRing = NewRing(1)
  /\ gRingIndex = 0
  /\ query = << >>
  /\ body = << >>
  /\ fromRing = FALSE
  /\ hist = << >>
  /\ lru = << >>
  /\ lruResult = NoResult
  /\ hitKey = << >>
  /\ hitOthers = {}
  /\ prevRing = gRing
  /\ prevIndex = 0
  /\ op = "none"
  /\ loadFailed = FALSE
  /\ fault = FALSE

InitScore ==
  /\ root = Node("eldamo", NoAttr, << >>)
  /\ gEldamoDictionary = << >>
  /\ gShortDefinitions = << >>
  /\ RingIdle
  /\ pc = "score"
  /\ inEntry \in ScoreEntries
  /\ inQuery \in ScoreQueries
  /\ outScore = 0
  /\ outResult = << >>
  /\ NoRun

RunComputeScore ==
  /\ pc = "score"
  /\ outScore' = computeScore(inEntry, inQuery)
  /\ pc' = "scored"
  /\ UNCHANGED << root, gEldamoDictionary, gShortDefinitions, inEntry, inQuery,
                  outResult >>
  /\ UNCHANGED runVars
  /\ UNCHANGED ringVars

NextScore == RunComputeScore

SpecScore == InitScore /\ [][NextScore]_vars

SomeTokenEquals(entry, q) == \E i \in 1..Len(entry.index) : entry.index[i] = q

\* the headword or the gloss of the entry, folded and lower-cased, is q
WholeMatch(entry, q) ==
  \/ toLowerCase(fold(entry.v)) = q
  \/ entry.gloss # Undefined /\ toLowerCase(fold(entry.gloss)) = q

\* C6, as claimed: the score is 100 if and only if some token of the entry
\* equals q, and is less than 100 otherwise.
ExactIffTokenEquals ==
  pc = "scored" =>
    /\ outScore = 100 <=> SomeTokenEquals(inEntry, inQuery)
    /\ ~SomeTokenEquals(inEntry, inQuery) => outScore < 100

\* C6, amended: the score is 100 if and only if some token of the entry equals
\* q and the whole folded headword or gloss equals q; it is 99 when a token
\* equals q and neither does; it is less than 99 when no token equals q.
ExactIffTokenAndWholeMatch ==
  pc = "scored" =>
    /\ outScore = 100 <=>
         (SomeTokenEquals(inEntry, inQuery) /\ WholeMatch(inEntry, inQuery))
    /\ (SomeTokenEquals(inEntry, inQuery) /\ ~WholeMatch(inEntry, inQuery))
         => outScore = 99
    /\ ~SomeTokenEquals(inEntry, inQuery) => outScore < 99

\* C6 witness: an entry one of whose gloss words is q, without its headword
\* or gloss being q, has been scored 99.
TokenMatchScoredReached ==
  /\ pc = "scored"
  /\ SomeTokenEquals(inEntry, inQuery)
  /\ ~WholeMatch(inEntry, inQuery)
  /\ Len(inEntry.index) > 1
  /\ outScore = 99

\* n / d rounded to the nearest integer, a half rounded up
Rounded(n, d) ==
  CHOOSE m \in 0..100 : 2 * m * d <= 2 * n + d /\ 2 * n + d < 2 * (m + 1) * d

\* the score claimed for the token t, prefixes weighing prefixWeight
ClaimedTokenScore(t, q, prefixWeight) ==
  IF Len(q) <= Len(t) /\ SubSeq(t, 1, Len(q)) = q
  THEN Rounded(prefixWeight * Len(q), Len(t))
  ELSE IF \E p \in 1..(Len(t) - Len(q)) : SubSeq(t, p + 1, p + Len(q)) = q
  THEN Rounded(70 * Len(q), Len(t))
  ELSE 0

\* the largest of the scores claimed for the tokens of the entry, 0 without any
ClaimedScore(entry, q, prefixWeight) ==
  LET each == { ClaimedTokenScore(entry.index[i], q, prefixWeight) :
                  i \in 1..Len(entry.index) } \cup { 0 }
  IN  CHOOSE m \in each : \A x \in each : x <= m

\* C7, as claimed: without a token equal to q the score is the rounded maximum
\* of 100 * len(q) / len(t) over the tokens starting with q and
\* 70 * len(q) / len(t) over those holding q further in; "ara" scores 43
\* against the one token "aragorn" and "agor" scores 40.
ScoreIsRoundedMaxOf100 ==
  (pc = "scored" /\ ~SomeTokenEquals(inEntry, inQuery)) =>
    /\ outScore = ClaimedScore(inEntry, inQuery, 100)
    /\ (inEntry.index = << Aragorn >> /\ inQuery = << "a", "r", "a" >>)
         => outScore = 43
    /\ (inEntry.index = << Aragorn >> /\ inQuery = << "a", "g", "o", "r" >>)
         => outScore = 40

\* C7, amended: the same with 98 * len(q) / len(t) over the tokens starting
\* with q; "ara" scores 42 against the one token "aragorn" and "agor" 40.
ScoreIsRoundedMaxOf98 ==
  (pc = "scored" /\ ~SomeTokenEquals(inEntry, inQuery)) =>
    /\ outScore = ClaimedScore(inEntry, inQuery, 98)
    /\ (inEntry.index = << Aragorn >> /\ inQuery = << "a", "r", "a" >>)
         => outScore = 42
    /\ (inEntry.index = << Aragorn >> /\ inQuery = << "a", "g", "o", "r" >>)
         => outScore = 40

\* C7 witness: "ara" has been scored against the one token "aragorn".
PrefixOfAragornScoredReached ==
  /\ pc = "scored"
  /\ inEntry.index = << Aragorn >>
  /\ inQuery = << "a", "r", "a" >>
  /\ outScore > 0

(***************************************************************************)
(* compileDictionary, then matchQuery, run on one raw tree and one query   *)
(* (specification SpecDict).                                               *)
(***************************************************************************)
\* the sequences of at most n elements of the set S
SeqsUpTo(S, n) == UNION { [ 1..k -> S ] : k \in 0..n }

GlossA == << "r", "a" >>
GlossB == << "r" >>
GlossC == << "a", "r", "a" >>

\* word nodes sharing the headword "ar"
MergeNodes ==
  { Word(<< "a", "r" >>, g, << >>) :
      g \in { GlossA, GlossB, GlossC, Unglossed, Undefined } }

\* word nodes with elements, nested words and excluded parts of speech
DictNodes ==
  { Word(v, g, c) :
      v \in { << "a", "r" >>, << "r", "a" >> },
      g \in { GlossA, << "a", "r" >>, Undefined },
      c \in { << >>,
              << Element(<< "a", "r" >>), Element(<< "r", "a" >>) >> } }
    \cup { Word(<< "a" >>, GlossB,
                << Element(Undefined), Element(<< "r", "a", "r" >>),
                   Word(<< "r", "a", "r" >>, Unglossed, << >>) >>),
           Node("word", [ NoAttr EXCEPT !.v = << "a", "r" >>, !.gloss = GlossB,
                                        !.speech = << "s", "u", "f" >> ],
                << Word(<< "r", "a" >>, GlossC, << >>) >>),
           Node("language", NoAttr,
                << Word(<< "r" >>, GlossC,
                        << Word(<< "a" >>, GlossA, << >>) >>) >>),
           Node("word", [ NoAttr EXCEPT !.gloss = GlossA ], << >>) }

DictRoots ==
  { Node("eldamo", NoAttr, c) :
      c \in SeqsUpTo(MergeNodes, MaxMerge) \cup SeqsUpTo(DictNodes, MaxWords) }

DictQueries == { << "a", "r" >>, << "r", "a" >>, << "r" >>, << "a", "r", "a", "r" >> }

InitDict ==
  /\ root \in DictRoots
  /\ gEldamoDictionary = << >>
  /\ gShortDefinitions = << >>
  /\ RingIdle
  /\ pc = "compile"
  /\ inEntry = << >>
  /\ inQuery \in DictQueries
  /\ outScore = 0
  /\ outResult = << >>
  /\ NoRun

\* loadDictionary() compiling the raw tree
RunCompileDictionary ==
  /\ pc = "compile"
  /\ LET compiled == compileDictionary(root, gShortDefinitions)
     IN  /\ gEldamoDictionary' = compiled.result
         /\ gShortDefinitions' = compiled.table
  /\ pc' = "match"
  /\ UNCHANGED << root, inEntry, inQuery, outScore, outResult >>
  /\ UNCHANGED runVars
  /\ UNCHANGED ringVars

RunMatchQuery ==
  /\ pc = "match"
  /\ outResult' = matchQuery(inQuery, gEldamoDictionary, gShortDefinitions)
  /\ pc' = "matched"
  /\ UNCHANGED << root, gEldamoDictionary, gShortDefinitions, inEntry, inQuery,
                  outScore >>
  /\ UNCHANGED runVars
  /\ UNCHANGED ringVars

NextDict == RunCompileDictionary \/ RunMatchQuery

SpecDict == InitDict /\ [][NextDict]_vars

\* the positions in the dictionary of the entries that score above 0
Scoring == { i \in 1..Len(gEldamoDictionary) :
               computeScore(gEldamoDictionary[i], inQuery) > 0 }

\* the j-th of them, in the order of the dictionary
NthScoring(j) ==
  CHOOSE i \in Scoring : Cardinality({ k \in Scoring : k <= i }) = j

\* C8: matchQuery returns exactly the entries of the dictionary that score
\* above 0, each once and in the order of the dictionary, each with its score,
\* an integer in 1..100.
ResultIsScoringEntriesInOrder ==
  pc = "matched" =>
    /\ Len(outResult) = Cardinality(Scoring)
    /\ \A j \in 1..Len(outResult) :
         LET entry == gEldamoDictionary[NthScoring(j)]
         IN  /\ outResult[j].v = entry.v
             /\ outResult[j].index = entry.index
             /\ outResult[j].gloss = entry.gloss
             /\ Len(outResult[j].elements) = Len(entry.elements)
             /\ outResult[j].score = computeScore(entry, inQuery)
             /\ outResult[j].score \in 1..100

\* C8 witness: of three entries or more, the query has matched some, not the
\* first, and left out others.
PartialMatchReached ==
  /\ pc = "matched"
  /\ Len(gEldamoDictionary) >= 3
  /\ Len(outResult) >= 2
  /\ Len(outResult) < Len(gEldamoDictionary)
  /\ 1 \notin Scoring

\* C9: every element {v, gloss} of every result has for gloss the value of the
\* short-gloss table for its own headword v, the empty string when the table
\* has none, whatever the query.
ElementGlossIsOfItsHeadword ==
  pc = "matched" =>
    \A j \in 1..Len(outResult) :
      \A e \in 1..Len(outResult[j].elements) :
        LET element == outResult[j].elements[e]
        IN  element.gloss =
              (IF element.v \in DOMAIN gShortDefinitions
               THEN gShortDefinitions[element.v] ELSE << >>)

\* the glosses that enter the table, of the entries of the dictionary
RECURSIVE GlossesOf(_)
GlossesOf(entries) ==
  IF entries = << >> THEN << >>
  ELSE (IF Head(entries).gloss \in { Undefined, << >>, Unglossed }
        THEN << >> ELSE << Head(entries).gloss >>)
       \o GlossesOf(Tail(entries))

\* the first occurrences of the elements of a sequence, in order
RECURSIVE Distinct(_)
Distinct(glosses) ==
  IF glosses = << >> THEN << >>
  ELSE LET front == Distinct(SubSeq(glosses, 1, Len(glosses) - 1))
           last == glosses[Len(glosses)]
       IN  IF \E i \in 1..Len(front) : front[i] = last
           THEN front ELSE Append(front, last)

\* the glosses joined by " / "
RECURSIVE Joined(_)
Joined(glosses) ==
  IF Len(glosses) = 1 THEN glosses[1]
  ELSE glosses[1] \o << " ", "/", " " >> \o Joined(Tail(glosses))

SharedHeadword ==
  /\ gEldamoDictionary # << >>
  /\ \A i \in 1..Len(gEldamoDictionary) :
       gEldamoDictionary[i].v = gEldamoDictionary[1].v

\* C10: for entries sharing one headword the merged short gloss is each
\* distinct gloss once, joined by " / ", however often and wherever a gloss
\* recurs.
MergedGlossHasEachGlossOnce ==
  (pc # "compile" /\ SharedHeadword /\ GlossesOf(gEldamoDictionary) # << >>) =>
    /\ gEldamoDictionary[1].v \in DOMAIN gShortDefinitions
    /\ gShortDefinitions[gEldamoDictionary[1].v]
         = Joined(Distinct(GlossesOf(gEldamoDictionary)))

(***************************************************************************)
(* compileDictionary run a second time on the same raw tree, the table     *)
(* gShortDefinitions being the module's and never cleared.                 *)
(***************************************************************************)
RunCompileDictionaryAgain ==
  /\ pc = "match"
  /\ LET compiled == compileDictionary(root, gShortDefinitions)
     IN  /\ gEldamoDictionary' = compiled.result
         /\ gShortDefinitions' = compiled.table
  /\ firstRun' = [ result |-> gEldamoDictionary, table |-> gShortDefinitions ]
  /\ pc' = "again"
  /\ UNCHANGED << root, inEntry, inQuery, outScore, outResult, inNode, outIndex >>
  /\ UNCHANGED ringVars

NextTwice == RunCompileDictionary \/ RunCompileDictionaryAgain

SpecTwice == InitDict /\ [][NextTwice]_vars

\* C11: compileDictionary run twice on the same raw tree yields the same
\* entry list and the same short-gloss table as its first run.
SecondCompileYieldsTheSame ==
  pc = "again" =>
    /\ gEldamoDictionary = firstRun.result
    /\ gShortDefinitions = firstRun.table

\* C12: after a failed dictionary load a /define request answers with the
\* empty result sequence and raises no exception.
QueryOnFailedLoadIsEmpty ==
  (loadFailed /\ op = "define") => (~fault /\ body = << >>)

(***************************************************************************)
(* The nodes of the raw tree, listed without compiling them.               *)
(***************************************************************************)
RECURSIVE preOrder(_)
RECURSIVE preOrderAll(_)

\* the node, then the nodes below it child by child
preOrder(node) == << node >> \o preOrderAll(node.children)

preOrderAll(children) ==
  IF children = << >> THEN << >>
  ELSE preOrder(Head(children)) \o preOrderAll(Tail(children))

\* a node of kind word whose part of speech is none of the seven non-lexical
\* ones
IsLexical(node) ==
  /\ node.name = "word"
  /\ node.attr.speech \notin ExcludedSpeech

HasHeadword(node) == node.attr.v # Undefined

\* the lexical nodes of the raw tree, in depth-first pre-order
LexicalNodes == SelectSeq(preOrder(root), IsLexical)

\* the entries of dictionary are those of nodes, one each, in order
EntriesAreOf(dictionary, nodes) ==
  /\ Len(dictionary) = Len(nodes)
  /\ \A k \in 1..Len(nodes) : dictionary[k] = entryOf(nodes[k])

\* C13: compilation completes and the compiled list has no entry for a
\* lexical node without a headword attribute, and an entry for every other
\* lexical node.
HeadwordlessNodeYieldsNoEntry ==
  pc # "compile" =>
    EntriesAreOf(gEldamoDictionary, SelectSeq(LexicalNodes, HasHeadword))

\* C18: the compiled list has exactly one entry per lexical node of the raw
\* tree, at any nesting depth, in depth-first pre-order, and no other entry.
OneEntryPerLexicalNodeInPreOrder ==
  pc # "compile" => EntriesAreOf(gEldamoDictionary, LexicalNodes)

\* the tree has a lexical node below a non-lexical word, one below a lexical
\* word and one two levels below a node that is no word
NestedLexicalReached ==
  /\ pc = "match"
  /\ \E i \in 1..Len(root.children) :
       LET n == root.children[i]
       IN  /\ n.name = "word" /\ ~IsLexical(n)
           /\ \E j \in 1..Len(n.children) : IsLexical(n.children[j])
  /\ \E i \in 1..Len(root.children) :
       LET n == root.children[i]
       IN  \/ /\ IsLexical(n)
              /\ \E j \in 1..Len(n.children) : IsLexical(n.children[j])
           \/ /\ n.name # "word"
              /\ \E j \in 1..Len(n.children) :
                   /\ IsLexical(n.children[j])
                   /\ n.children[j].children # << >>

(***************************************************************************)
(* The ring by itself: getFromRing and addToRing called in any order with  *)
(* any key, the ring and the cursor before each call being kept.           *)
(***************************************************************************)
RingKeys == { toLowerCase(fold(word)) : word \in RequestWords }

InitRing ==
  /\ root = ServerRoot
  /\ LET compiled == LoadFromXml(root)
     IN  /\ gEldamoDictionary = compiled.result
         /\ gShortDefinitions = compiled.table
  /\ RING_SIZE \in 1..MaxRingSize
  /\ gRing = NewRing(RING_SIZE)
  /\ gRingIndex = 0
  /\ query = << >>
  /\ body = << >>
  /\ fromRing = FALSE
  /\ hist = << >>
  /\ lru = << >>
  /\ lruResult = NoResult
  /\ hitKey = << >>
  /\ hitOthers = {}
  /\ prevRing = gRing
  /\ prevIndex = 0
  /\ op = "none"
  /\ loadFailed = FALSE
  /\ fault = FALSE
  /\ pc = "ring"
  /\ NoFunRun

\* getFromRing(k)
CallGetFromRing(k) ==
  LET got == getFromRing(gRing, gRingIndex, k)
  IN  /\ pc = "ring"
      /\ gRing' = got.ring
      /\ gRingIndex' = got.ringIndex
      /\ query' = k
      /\ body' = got.result.value
      /\ fromRing' = got.result.defined
      /\ prevRing' = gRing
      /\ prevIndex' = gRingIndex
      /\ op' = "get"
      /\ UNCHANGED << root, gEldamoDictionary, gShortDefinitions, loadFailed,
                      fault, RING_SIZE, pc >>
      /\ UNCHANGED ghostVars
      /\ UNCHANGED funVars

\* addToRing(k, v), v the JSON text of the results of k
CallAddToRing(k) ==
  LET v == JSONstringify(matchQuery(k, gEldamoDictionary, gShortDefinitions))
      added == addToRing(gRing, gRingIndex, RING_SIZE, k, v)
  IN  /\ pc = "ring"
      /\ gRing' = added.ring
      /\ gRingIndex' = added.ringIndex
      /\ query' = k
      /\ body' = v
      /\ fromRing' = FALSE
      /\ prevRing' = gRing
      /\ prevIndex' = gRingIndex
      /\ op' = "put"
      /\ UNCHANGED << root, gEldamoDictionary, gShortDefinitions, loadFailed,
                      fault, RING_SIZE, pc >>
      /\ UNCHANGED ghostVars
      /\ UNCHANGED funVars

NextRing ==
  \/ \E k \in RingKeys : CallGetFromRing(k)
  \/ \E k \in RingKeys : CallAddToRing(k)

SpecRing == InitRing /\ [][NextRing]_vars

\* the first slot (0-based) of the ring before the call that holds the key
HitSlot ==
  CHOOSE i \in 0..(Len(prevRing) - 1) :
    /\ prevRing[i + 1].used /\ prevRing[i + 1].key = query
    /\ \A j \in 0..(i - 1) : ~(prevRing[j + 1].used /\ prevRing[j + 1].key = query)

\* the last call was a get of a key held by a slot other than the cursor's
GotAwayFromCursor ==
  /\ op = "get"
  /\ query \in StoredKeys(prevRing)
  /\ HitSlot # prevIndex

\* slot i (0-based) of the ring holds the entry that was hit
HoldsHitEntry(i) ==
  /\ gRing[i + 1].used
  /\ gRing[i + 1].key = query
  /\ gRing[i + 1].value = prevRing[HitSlot + 1].value

\* C14 as stated: a get hitting at a slot i other than the cursor slot c
\* leaves the hit entry in slot c, the cursor at (c + 1) mod N and the slot
\* the cursor then targets empty.
HitAwayMovesEntryToCursorSlot ==
  GotAwayFromCursor =>
    /\ HoldsHitEntry(prevIndex)
    /\ gRingIndex = (prevIndex + 1) % RING_SIZE
    /\ ~gRing[gRingIndex + 1].used

\* C14: a get hitting at a slot i other than the cursor slot c leaves the slot
\* the cursor then targets empty and the hit entry in the slot cyclically
\* before it: for i > c and c < N - 2 the entry is in slot c and the cursor at
\* c + 1; for i < c the entry is in slot c - 1 and the cursor stays at c; for
\* c = N - 2 and i = N - 1 the entry is in slot N - 1 and the cursor at 0.
HitAwayMovesEntryBeforeCursor ==
  GotAwayFromCursor =>
    /\ fromRing
    /\ ~gRing[gRingIndex + 1].used
    /\ HoldsHitEntry((gRingIndex + RING_SIZE - 1) % RING_SIZE)
    /\ (HitSlot > prevIndex /\ prevIndex < RING_SIZE - 2) =>
         (HoldsHitEntry(prevIndex) /\ gRingIndex = prevIndex + 1)
    /\ HitSlot < prevIndex =>
         (HoldsHitEntry(prevIndex - 1) /\ gRingIndex = prevIndex)
    /\ (HitSlot > prevIndex /\ prevIndex = RING_SIZE - 2) =>
         (HoldsHitEntry(RING_SIZE - 1) /\ gRingIndex = 0)

\* a get hit the last slot while the cursor was on the slot before it, in a
\* ring of three slots or more
HitLastSlotFromNextToLastReached ==
  /\ GotAwayFromCursor
  /\ RING_SIZE >= 3
  /\ HitSlot = RING_SIZE - 1
  /\ prevIndex = RING_SIZE - 2

\* C15: a get whose key is in no slot returns absent and leaves every slot
\* and the cursor as they were.
MissChangesNothing ==
  (op = "get" /\ query \notin StoredKeys(prevRing)) =>
    /\ ~fromRing
    /\ gRing = prevRing
    /\ gRingIndex = prevIndex

\* a get missed in a ring that holds other keys
MissInOccupiedRingReached ==
  /\ op = "get"
  /\ query \notin StoredKeys(prevRing)
  /\ StoredKeys(prevRing) # {}
  /\ prevIndex # 0

\* C16: a get hitting at the cursor slot returns the stored value, advances
\* the cursor by one modulo N and changes the content of no slot.
HitAtCursorAdvancesOnly ==
  (op = "get" /\ query \in StoredKeys(prevRing) /\ HitSlot = prevIndex) =>
    /\ fromRing
    /\ body = prevRing[prevIndex + 1].value
    /\ gRingIndex = (prevIndex + 1) % RING_SIZE
    /\ gRing = prevRing

\* a get hit the cursor slot of a ring of two slots or more
HitAtCursorReached ==
  /\ op = "get"
  /\ query \in StoredKeys(prevRing)
  /\ HitSlot = prevIndex
  /\ RING_SIZE >= 2

\* C17: put(key, value) stores the pair at the slot the cursor targeted,
\* leaves the cursor at (old cursor + 1) mod N and every other slot as it was.
PutStoresAtCursor ==
  op = "put" =>
    /\ gRing[prevIndex + 1] = [ used |-> TRUE, key |-> query, value |-> body ]
    /\ gRingIndex = (prevIndex + 1) % RING_SIZE
    /\ \A j \in 1..RING_SIZE : j # prevIndex + 1 => gRing[j] = prevRing[j]

\* a put overwrote an occupied slot of a ring of two slots or more
PutOverOccupiedSlotReached ==
  /\ op = "put"
  /\ prevRing[prevIndex + 1].used
  /\ prevRing[prevIndex + 1].key # query
  /\ RING_SIZE >= 2

(***************************************************************************)
(* computeIndex on a word node whose gloss is a generated word followed by *)
(* the word "ra".                                                          *)
(***************************************************************************)
GlossAlphabet == { "r", "a", "1", "(", "*", ")", "]" }

GlossWords == UNION { [ 1..k -> GlossAlphabet ] : k \in 1..MaxGlossLen }

IndexGloss(w) == w \o << " ", "r", "a" >>

IndexNodes == { Word(<< "a", "r" >>, IndexGloss(w), << >>) : w \in GlossWords }

InitIndex ==
  /\ root = ServerRoot
  /\ gEldamoDictionary = << >>
  /\ gShortDefinitions = << >>
  /\ RingIdle
  /\ pc = "index"
  /\ inEntry = << >>
  /\ inQuery = << >>
  /\ outScore = 0
  /\ outResult = << >>
  /\ firstRun = << >>
  /\ inNode \in IndexNodes
  /\ outIndex = << >>

RunComputeIndex ==
  /\ pc = "index"
  /\ outIndex' = computeIndex(inNode)
  /\ pc' = "indexed"
  /\ UNCHANGED << root, gEldamoDictionary, gShortDefinitions, inEntry, inQuery,
                  outScore, outResult, firstRun, inNode >>
  /\ UNCHANGED ringVars

NextIndex == RunComputeIndex

SpecIndex == InitIndex /\ [][NextIndex]_vars

\* w without one leading marker, then without one trailing marker
StrippedOnce(w) ==
  LET w1 == IF w[1] \in { "*", "?", "(", "{", "[" }
            THEN SubSeq(w, 2, Len(w)) ELSE w
  IN  IF w1 # << >> /\ w1[Len(w1)] \in { "]", ")" }
      THEN SubSeq(w1, 1, Len(w1) - 1) ELSE w1

AllDigits(w) == \A i \in 1..Len(w) : w[i] \in Digits

\* the index of the node of gloss word w when w contributes the words ws
IndexedAs(w, ws) ==
  (pc = "indexed" /\ inNode.attr.gloss = IndexGloss(w)) =>
    outIndex = << << "a", "r" >> >> \o ws \o << << "r", "a" >> >>

\* C19: a gloss word (here one without digits) loses one leading marker and
\* one trailing "]" or ")", and what is left is indexed when it is not empty
\* and no stop word.
MarkersStrippedOnceAndRestIndexed ==
  \A w \in GlossWords :
    ~HasDigit(w) =>
      IndexedAs(w, IF StrippedOnce(w) # << >> /\ StrippedOnce(w) \notin STOP_WORDS
                   THEN << StrippedOnce(w) >> ELSE << >>)

\* C20: a stripped gloss word (here of a word without trailing marker) is
\* dropped only when it is empty, solely digits or a stop word, and appended
\* otherwise.
DroppedOnlyIfEmptyNumericOrStopWord ==
  \A w \in GlossWords :
    w[Len(w)] \notin { "]", ")" } =>
      IndexedAs(w, IF /\ StrippedOnce(w) # << >>
                      /\ ~AllDigits(StrippedOnce(w))
                      /\ StrippedOnce(w) \notin STOP_WORDS
                   THEN << StrippedOnce(w) >> ELSE << >>)

\* C21: after any sequence of addToRing and getFromRing calls the ring has
\* exactly RING_SIZE slots and the cursor is an integer of 0..RING_SIZE-1.
RingLengthAndCursorKept ==
  /\ Len(gRing) = RING_SIZE
  /\ gRingIndex \in 0..(RING_SIZE - 1)

\* a get hit a slot below the cursor while the cursor was on the last slot of
\* a ring of three slots or more
HitBelowCursorOnLastSlotReached ==
  /\ GotAwayFromCursor
  /\ RING_SIZE >= 3
  /\ HitSlot < prevIndex
  /\ prevIndex = RING_SIZE - 1

\* C22: under the protocol of the /define handler (getFromRing first,
\* addToRing only when it missed) no key occupies more than one slot of the
\* ring after any sequence of requests.
NoKeyInTwoSlots ==
  \A i, j \in 1..Len(gRing) :
    (i # j /\ gRing[i].used /\ gRing[j].used) => gRing[i].key # gRing[j].key

\* a request was served from a slot other than the cursor's while the ring
\* held two keys or more
ServedAwayFromCursorReached ==
  /\ op = "define"
  /\ fromRing
  /\ HitSlot # prevIndex
  /\ Cardinality(StoredKeys(prevRing)) >= 2

\* C23: with the dictionary loaded, the body sent for a request of folded
\* query q is JSON.stringify(matchQuery(q)), served from the ring or computed,
\* and right after the request a request for q again is a ring hit (that
\* returns the same body).
BodyIsMatchQueryTextAndRepeatHits ==
  (op = "define" /\ ~loadFailed) =>
    /\ body = JSONstringify(matchQuery(query, gEldamoDictionary, gShortDefinitions))
    /\ LET again == getFromRing(gRing, gRingIndex, query)
       IN  /\ again.result.defined
           /\ again.result.value = body

\* a request with results was served from the ring while another slot held
\* a different key with a different value
ServedFromRingAmongOthersReached ==
  /\ op = "define"
  /\ ~loadFailed
  /\ fromRing
  /\ body # << >>
  /\ \E i \in 1..Len(prevRing) :
       /\ prevRing[i].used
       /\ prevRing[i].key # query
       /\ prevRing[i].value # body

=============================================================================
